---------------------------- MODULE Spec2Model ----------------------------
(***************************************************************************)
(* Per-session duplex relay of the spectrum proxy: handleServer (server to *)
(* client), handleClient / handleClientBatch / decodeAndCreateContext      *)
(* (client to server), handleLatency (heartbeat) and logError, together    *)
(* with the Session operations they call (Server, CloseWithError,          *)
(* Transfer, fallback) and the PacketContext pool.                         *)
(***************************************************************************)
EXTENDS Integers, Sequences, FiniteSets, TLC

(***************************************************************************)
(* Bounds of the model.                                                    *)
(***************************************************************************)
\* Largest number of payloads in one client batch (batch pipeline runs).
MaxLen == 3
\* Number of servers that can be dialed after the initial one.
MaxDials == 2

(***************************************************************************)
(* Protocols, packets and payloads.                                        *)
(***************************************************************************)
\* protocol.CurrentProtocol: the id of the latest protocol.  Only equality
\* with the client's protocol id is ever tested.
CurrentProtocol == "latest"
LegacyProtocol == "legacy"
Protocols == {LegacyProtocol, CurrentProtocol}

\* Packet ids.  The client pool knows PoolIDs; UnknownID is outside of it.
IDOne == "one"       \* ConvertToLatest yields exactly one packet
IDNone == "none"     \* ConvertToLatest yields no packet
IDMany == "many"     \* ConvertToLatest yields two packets
IDExtra == "extra"   \* second packet produced by converting IDMany
UnknownID == "unknown"
PoolIDs == {IDOne, IDNone, IDMany, IDExtra}

\* A payload is a byte string; it is modelled by what a reader can get out of
\* it: whether the header parses, the packet id of the header, the protocol
\* whose wire format the body is written in, the body's field value, the
\* number of bytes left after the body, and whether reading the body panics.
Pay(h, i, p, v, x, b) ==
    [hdr |-> h, id |-> i, proto |-> p, val |-> v, extra |-> x, bad |-> b]

\* The payloads a client on protocol cp can send.
ClientPayloads(cp) ==
    { Pay(TRUE, IDOne, cp, 0, 0, FALSE),
      Pay(TRUE, IDNone, cp, 0, 0, FALSE),
      Pay(TRUE, IDMany, cp, 0, 0, FALSE),
      Pay(TRUE, IDOne, cp, 0, 1, FALSE),
      Pay(FALSE, UnknownID, cp, 0, 0, FALSE),
      Pay(TRUE, UnknownID, cp, 0, 0, FALSE),
      Pay(TRUE, IDOne, cp, 0, 0, TRUE) }

\* A decoded packet: its id, the protocol version of its struct, its field.
Pk(i, p, v) == [id |-> i, proto |-> p, val |-> v]

\* Protocol.ConvertToLatest: zero, one or several packets of the latest
\* protocol.
ConvertToLatest(pk) ==
    IF pk.id = IDNone THEN << >>
    ELSE IF pk.id = IDMany
         THEN << Pk(pk.id, CurrentProtocol, pk.val),
                 Pk(IDExtra, CurrentProtocol, pk.val) >>
         ELSE << Pk(pk.id, CurrentProtocol, pk.val) >>

\* header.Write followed by decoded.Marshal(w), w the writer of protocol wp.
Encode(pk, wp) == Pay(TRUE, pk.id, wp, pk.val, 0, FALSE)

(***************************************************************************)
(* Errors.  An error is the message of its outermost wrapping; canc tells  *)
(* whether errors.Is(err, context.Canceled) holds of it.                   *)
(***************************************************************************)
NoErr == [msg |-> "", canc |-> FALSE]
Err(m) == [msg |-> m, canc |-> FALSE]
ErrCanc(m, c) == [msg |-> m, canc |-> c]
\* fmt.Errorf(m + ": %w", e)
Wrap(m, e) == [msg |-> m, canc |-> e.canc]

(***************************************************************************)
(* PacketContext.  raw and decoded are sequences of length 0 (nil) or 1.   *)
(* returns counts the ReturnPacketContext calls made on the context.       *)
(***************************************************************************)
NewPacketContext(raw, decoded) ==
    [raw |-> raw, decoded |-> decoded, canceled |-> FALSE,
     modified |-> FALSE, returns |-> 0]

ReturnPacketContext(ctx) == [ctx EXCEPT !.returns = @ + 1]

\* NewContext: the context of a non-packet action.
NewContext == [canceled |-> FALSE]

Cancel(ctx) == [ctx EXCEPT !.canceled = TRUE]

\* Variant: a context never reports that it was cancelled.
Cancelled_Never(ctx) == FALSE

Cancelled(ctx) == ctx.canceled
Modified(ctx) == ctx.modified
SetModified(ctx) == [ctx EXCEPT !.modified = TRUE]

(***************************************************************************)
(* State.                                                                  *)
(***************************************************************************)
VARIABLES
    opts,        \* s.opts: [SyncProtocol, ClientDecode]
    clientProto, \* s.client.Proto().ID()
    cancelled,   \* s.ctx is done
    cause,       \* context.Cause(s.ctx), by its message
    clientClosed,\* the client connection has been closed
    server,      \* the session's current server (what s.Server() returns)
    closed,      \* closed[x]: server connection x has been closed
    dialed,      \* dialed[x]: the caller and call that dialed server x ("" when
                 \* x has not been dialed)
    lock,        \* holder of the transfer serialization ("" when free)
    swap,        \* swap[c]: progress of caller c's Transfer or fallback
    pcS,         \* position of handleServer
    snap,        \* handleServer's local variable server
    pcC,         \* position of handleClient
    batchErr,    \* error returned by handleClientBatch, being handled
    pcL,         \* position of handleLatency
    latency,     \* s.latency
    cache,       \* the session cache
    ev,          \* what the step that led to this state did
    relayLog     \* when on: the packet and byte items handleServer has read
                 \* and the items it has given to the client connection

vars == << opts, clientProto, cancelled, cause, clientClosed, server, closed,
           dialed, lock, swap, pcS, snap, pcC, batchErr, pcL, latency, cache,
           ev, relayLog >>

(***************************************************************************)
(* decodeAndCreateContext                                                  *)
(***************************************************************************)
isClientLatestVersion == clientProto = CurrentProtocol

\* Variant: SyncProtocol alone does not pass a payload on without decoding.
PassRaw_LatestOnly(id) ==
    id \notin opts.ClientDecode /\ isClientLatestVersion

\* The condition under which a payload is passed on without decoding.
PassRaw(id) ==
    id \notin opts.ClientDecode /\ (opts.SyncProtocol \/ isClientLatestVersion)

\* Whether the decoded packet has to be upgraded to the latest protocol.
NeedsUpgrade == ~opts.SyncProtocol /\ ~isClientLatestVersion

\* Variant: the context carries the last of the upgraded packets.
UpgradedContext_Last(payload, upgraded) ==
    IF Len(upgraded) = 0
    THEN [err |-> NoErr, ctx |-> << >>]
    ELSE [err |-> NoErr,
          ctx |-> << NewPacketContext(<< payload >>,
                                      << upgraded[Len(upgraded)] >>) >>]

\* The context built from the upgraded packets: none when there is no packet.
UpgradedContext(payload, upgraded) ==
    IF Len(upgraded) = 0
    THEN [err |-> NoErr, ctx |-> << >>]
    ELSE [err |-> NoErr,
          ctx |-> << NewPacketContext(<< payload >>, << upgraded[1] >>) >>]

\* Returns [err, ctx]: ctx is << >> for a nil context.
decodeAndCreateContext(payload) ==
    IF ~payload.hdr
    THEN [err |-> Err("failed to decode header"), ctx |-> << >>]
    ELSE IF payload.id \notin PoolIDs
    THEN [err |-> Err("unknown packet"), ctx |-> << >>]
    ELSE IF PassRaw(payload.id)
    THEN [err |-> NoErr, ctx |-> << NewPacketContext(<< payload >>, << >>) >>]
    ELSE IF payload.bad
    THEN [err |-> Err("panic while decoding packet from client batch"),
          ctx |-> << >>]
    ELSE IF payload.extra > 0
    THEN [err |-> Err("had extra bytes"), ctx |-> << >>]
    ELSE LET decodedPk == Pk(payload.id, clientProto, payload.val)
         IN  IF NeedsUpgrade
             THEN UpgradedContext(payload, ConvertToLatest(decodedPk))
             ELSE [err |-> NoErr,
                   ctx |-> << NewPacketContext(<< payload >>, << decodedPk >>) >>]

(***************************************************************************)
(* handleClientBatch                                                       *)
(***************************************************************************)
\* The first loop before its first iteration.
NoContexts == [err |-> NoErr, ctxBatch |-> << >>, calls |-> << >>]

\* Variant: a payload that fails to decode is skipped.
RECURSIVE BuildContexts_SkipFailed(_, _)
BuildContexts_SkipFailed(payloads, acc) ==
    IF payloads = << >> THEN acc
    ELSE LET r == decodeAndCreateContext(Head(payloads))
             calls == Append(acc.calls, "decodeAndCreateContext")
         IN  BuildContexts_SkipFailed(Tail(payloads),
                 [err |-> NoErr, ctxBatch |-> acc.ctxBatch \o r.ctx,
                  calls |-> calls])

\* The first loop: contexts are built in payload order until one fails.
\* acc is [err, ctxBatch, calls], calls being the calls made so far.
RECURSIVE BuildContexts(_, _)
BuildContexts(payloads, acc) ==
    IF payloads = << >> THEN acc
    ELSE LET r == decodeAndCreateContext(Head(payloads))
             calls == Append(acc.calls, "decodeAndCreateContext")
         IN  IF r.err # NoErr
             THEN [err |-> r.err, ctxBatch |-> acc.ctxBatch, calls |-> calls]
             ELSE BuildContexts(Tail(payloads),
                      [err |-> NoErr, ctxBatch |-> acc.ctxBatch \o r.ctx,
                       calls |-> calls])

\* What a processor can do to one context in ProcessClient.
ProcOps == {"keep", "cancel", "mark", "mutate", "modify"}

\* The operations that differ on this context (a context without a decoded
\* packet has nothing to mutate).
OpsFor(ctx) ==
    IF ctx.decoded = << >> THEN {"keep", "cancel", "mark"} ELSE ProcOps

Mutate(ctx) ==
    [ctx EXCEPT !.decoded = << [ctx.decoded[1] EXCEPT !.val = @ + 1] >>]

ApplyOp(ctx, op) ==
    CASE op = "keep" -> ctx
      [] op = "cancel" -> Cancel(ctx)
      [] op = "mark" -> SetModified(ctx)
      [] op = "mutate" -> Mutate(ctx)
      [] op = "modify" -> SetModified(Mutate(ctx))

\* Processor.ProcessClient(ctxBatch) with the processor's choices ops.
ProcessClient(ctxBatch, ops) ==
    [i \in 1..Len(ctxBatch) |-> ApplyOp(ctxBatch[i], ops[i])]

\* Variant: modified packets are always re-encoded by the writer of the
\* latest protocol.
WriterProto_AlwaysLatest == CurrentProtocol

\* The protocol whose writer re-encodes modified packets.
WriterProto == IF opts.SyncProtocol THEN clientProto ELSE CurrentProtocol

\* Variant: every decoded packet is re-encoded, modified or not.
ForwardsRaw_OnlyUndecoded(ctx) == ctx.decoded = << >>

\* The test that sends the raw payload of a context on as it is.
ForwardsRaw(ctx) == ctx.decoded = << >> \/ ~Modified(ctx)

\* One iteration of the second loop.  acc is [ctxs, payloadBatch, how].
EmitContext(ctx, acc) ==
    IF Cancelled(ctx)
    THEN [acc EXCEPT !.ctxs = Append(@, ReturnPacketContext(ctx))]
    ELSE IF ForwardsRaw(ctx)
    THEN [ctxs |-> Append(acc.ctxs, ReturnPacketContext(ctx)),
          payloadBatch |-> Append(acc.payloadBatch, ctx.raw[1]),
          how |-> Append(acc.how, "raw")]
    ELSE [ctxs |-> Append(acc.ctxs, ctx),
          payloadBatch |->
              Append(acc.payloadBatch, Encode(ctx.decoded[1], WriterProto)),
          how |-> Append(acc.how, "encoded")]

RECURSIVE EmitAll(_, _)
EmitAll(ctxBatch, acc) ==
    IF ctxBatch = << >> THEN acc
    ELSE EmitAll(Tail(ctxBatch), EmitContext(Head(ctxBatch), acc))

\* handleClientBatch(payloads): ops and panics are the processor's choices,
\* werr the result of ServerConn.WriteBatch (NoErr for nil).  The result
\* records the error returned, every context acquired (in its final state),
\* the contexts handed to ProcessClient, the WriteBatch call, and the calls
\* made in their order.
handleClientBatch(payloads, ops, panics, werr) ==
    LET built == BuildContexts(payloads, NoContexts)
        given == built.ctxBatch
        after == ProcessClient(given, ops)
        emit == EmitAll(after, [ctxs |-> << >>, payloadBatch |-> << >>,
                                how |-> << >>])
    IN  IF built.err # NoErr
        THEN [err |-> built.err, ctxs |-> given, given |-> << >>,
              processed |-> FALSE, wrote |-> FALSE, out |-> << >>,
              how |-> << >>, to |-> -1, calls |-> built.calls]
        ELSE IF panics
        THEN [err |-> Err("panic while handling batch"), ctxs |-> given,
              given |-> given, processed |-> TRUE, wrote |-> FALSE,
              out |-> << >>, how |-> << >>, to |-> -1,
              calls |-> Append(built.calls, "ProcessClient")]
        ELSE [err |-> werr, ctxs |-> emit.ctxs, given |-> given,
              processed |-> TRUE, wrote |-> TRUE, out |-> emit.payloadBatch,
              how |-> emit.how, to |-> server,
              calls |-> built.calls \o << "ProcessClient", "WriteBatch" >>]

(***************************************************************************)
(* Session operations.                                                     *)
(***************************************************************************)
Servers == 0..MaxDials
Callers == {"relay", "api"}
Idle == [kind |-> "none", phase |-> "idle", cand |-> -1]

\* Session.CloseWithError(err): idempotent teardown.  The first call fires
\* the cancellation signal with err as cause and closes both connections.
CloseWithError(err) ==
    IF cancelled
    THEN UNCHANGED << cancelled, cause, clientClosed, closed >>
    ELSE /\ cancelled' = TRUE
         /\ cause' = err.msg
         /\ clientClosed' = TRUE
         /\ closed' = [closed EXCEPT ![server] = TRUE]

\* ServerConn.CloseWithError on connection x.
ServerClosed(x) == [closed EXCEPT ![x] = TRUE]

\* logError(s, msg, err), done being whether s.ctx is done when it runs:
\* whether the call emits an entry through s.logger.Error.
logError(done, err) ==
    IF done THEN FALSE
    ELSE IF ~err.canc THEN TRUE ELSE FALSE

\* An error returned by an operation on a connection: one that is an
\* artifact of a cancellation can only come from a closed connection.
ConnErrors(m, isClosed) ==
    {ErrCanc(m, c) : c \in (IF isClosed THEN BOOLEAN ELSE {FALSE})}

\* Results of a write or flush on the client connection (NoErr: success).
ClientResults(m) ==
    IF clientClosed THEN ConnErrors(m, TRUE)
    ELSE {NoErr} \cup ConnErrors(m, FALSE)

\* Results of a write on server connection x.
ServerResults(m, x) ==
    IF closed[x] THEN ConnErrors(m, TRUE)
    ELSE {NoErr} \cup ConnErrors(m, FALSE)

(***************************************************************************)
(* What a step did, for the step that led to the current state.            *)
(***************************************************************************)
NoBatch ==
    [payloads |-> << >>, err |-> NoErr, ctxs |-> << >>, given |-> << >>,
     ops |-> << >>, processed |-> FALSE, wrote |-> FALSE, out |-> << >>,
     how |-> << >>, to |-> -1, calls |-> << >>]

\* task: the task that took the step; what: the step; item, id: the item read
\* from the server; cancelled: the processor cancelled the context; wrote:
\* what was written to the client; tracked: what the Tracker was fed;
\* closes: the message of the error given to Session.CloseWithError, if it
\* was called; failed: the connection operation of the step returned an
\* error; logged:
\* logger.Error was called; to: the server written to or installed; dur:
\* the client latency read; sent: the control packets written to the server;
\* batch: the handleClientBatch call.
NoEvent ==
    [task |-> "", what |-> "", item |-> "", id |-> "", cancelled |-> FALSE,
     wrote |-> << >>, tracked |-> << >>, failed |-> FALSE, logged |-> FALSE,
     to |-> -1, dur |-> 0, sent |-> << >>, closes |-> << >>,
     batch |-> NoBatch]

Event(t, w) == [NoEvent EXCEPT !.task = t, !.what = w]

(***************************************************************************)
(* Transfer and fallback: one swap at a time, callers serialize.           *)
(***************************************************************************)
Undialed == {x \in Servers : dialed[x] = ""}
NextServer == CHOOSE x \in Undialed : \A y \in Undialed : x <= y

\* The caller takes the transfer serialization and dials a new server.
SwapDial(c, kind) ==
    /\ lock = ""
    /\ Undialed # {}
    /\ lock' = c
    /\ dialed' = [dialed EXCEPT ![NextServer] = c \o ":" \o kind]
    /\ swap' = [swap EXCEPT ![c] = [kind |-> kind, phase |-> "dialed",
                                    cand |-> NextServer]]

\* The swap ends without a new server (pre-transfer cancelled, dial failed).
SwapFail(c) ==
    /\ lock = ""
    /\ swap' = [swap EXCEPT ![c] = Idle]
    /\ UNCHANGED << lock, dialed >>

\* Variant: the swap leaves the replaced server open.
ClosedBySwap_None == closed

\* The servers closed once the dialed server has replaced the current one.
ClosedBySwap == ServerClosed(server)

\* The new server replaces the current one, which is closed.
SwapInstall(c) ==
    /\ swap[c].phase = "dialed"
    /\ server' = swap[c].cand
    /\ closed' = ClosedBySwap
    /\ lock' = ""
    /\ swap' = [swap EXCEPT ![c] = Idle]

(***************************************************************************)
(* handleServer                                                            *)
(***************************************************************************)
\* The protocol of the packets the current server sends.
ServerProto == IF opts.SyncProtocol THEN clientProto ELSE CurrentProtocol

\* The packets ReadPacket can return.
ServerPackets == {Pk(i, ServerProto, 0) : i \in {IDOne, IDNone, IDMany}}

\* What is written to the client: a flush, a decoded packet or raw bytes.
Out(kind, id, proto) == [kind |-> kind, id |-> id, proto |-> proto]

\* Variant: the relay never takes a read error for a stale one.
IsStale_Never(x) == FALSE

\* The stale-read test of the relay: the server read from is no longer the
\* session's current server.
IsStale(x) == x # server

\* What the Tracker is fed for a packet that is forwarded.
Tracked(pk) == IF opts.SyncProtocol THEN ConvertToLatest(pk) ELSE << pk >>

\* Processor.ProcessFlush / ProcessServer: the processor cancels the context
\* (c) or leaves it alone.
Processed(ctx, c) == IF c THEN Cancel(ctx) ELSE ctx

\* The cancellation case of the select at the top of the loop.
S_Cancelled ==
    /\ pcS = "select"
    /\ cancelled
    /\ CloseWithError(Err(cause))
    /\ pcS' = "done"
    /\ ev' = [Event("S", "cancelled") EXCEPT !.closes = << cause >>]
    /\ UNCHANGED << opts, clientProto, server, dialed, lock, swap, snap, pcC,
                    batchErr, pcL, latency, cache, relayLog >>

\* The loop goes on: server := s.Server().
S_Snapshot ==
    /\ pcS = "select"
    /\ ~cancelled
    /\ snap' = server
    /\ pcS' = "read"
    /\ ev' = Event("S", "snapshot")
    /\ UNCHANGED << opts, clientProto, cancelled, cause, clientClosed, server,
                    closed, dialed, lock, swap, pcC, batchErr, pcL, latency,
                    cache, relayLog >>

\* Variant: a failed read is tried again on the same connection.
S_ReadError_Retry ==
    /\ pcS = "read"
    /\ pcS' = "read"
    /\ ev' = Event("S", "readerr")
    /\ UNCHANGED << opts, clientProto, cancelled, cause, clientClosed, server,
                    closed, dialed, lock, swap, snap, pcC, batchErr, pcL,
                    latency, cache, relayLog >>

\* ReadPacket fails.
S_ReadError ==
    /\ pcS = "read"
    /\ IF IsStale(snap)
       THEN /\ pcS' = "select"
            /\ ev' = Event("S", "stale")
            /\ UNCHANGED << closed, swap >>
       ELSE /\ closed' = ServerClosed(snap)
            /\ pcS' = "swap"
            /\ swap' = [swap EXCEPT !["relay"] =
                            [kind |-> "fallback", phase |-> "wait",
                             cand |-> -1]]
            /\ ev' = Event("S", "readerr")
    /\ UNCHANGED << opts, clientProto, cancelled, cause, clientClosed, server,
                    dialed, lock, snap, pcC, batchErr, pcL, latency, cache,
                    relayLog >>

\* Variant: after a fatal failure the relay goes round its loop again.
S_Fatal_NoBreak(e, msg, err) ==
    /\ CloseWithError(Wrap(msg, err))
    /\ ev' = [e EXCEPT !.what = msg, !.failed = TRUE,
                       !.closes = << msg >>,
                       !.logged = logError(cancelled', err)]
    /\ pcS' = "select"

\* A fatal client-side failure: close the session, log, leave the loop.
S_Fatal(e, msg, err) ==
    /\ CloseWithError(Wrap(msg, err))
    /\ ev' = [e EXCEPT !.what = msg, !.failed = TRUE,
                       !.closes = << msg >>,
                       !.logged = logError(cancelled', err)]
    /\ pcS' = "done"

\* Variant: the relay leaves its loop where it should go round again.
S_Continue_Exit(e) ==
    /\ pcS' = "done"
    /\ ev' = e
    /\ UNCHANGED << cancelled, cause, clientClosed, closed >>

\* The item is done with: continue loop.
S_Continue(e) ==
    /\ pcS' = "select"
    /\ ev' = e
    /\ UNCHANGED << cancelled, cause, clientClosed, closed >>

S_Flush ==
    /\ pcS = "read" /\ ~closed[snap]
    /\ \E c \in BOOLEAN :
         LET ctx == Processed(NewContext, c)
             e == [Event("S", "flush") EXCEPT !.item = "flush",
                                              !.cancelled = c]
         IN  IF Cancelled(ctx)
             THEN S_Continue(e)
             ELSE \E r \in ClientResults("flush failed") :
                    LET f == [e EXCEPT !.wrote = << Out("flush", "", "") >>]
                    IN  IF r = NoErr THEN S_Continue(f)
                        ELSE S_Fatal(f, "failed to flush client's buffer", r)
    /\ UNCHANGED << opts, clientProto, server, dialed, lock, swap, snap, pcC,
                    batchErr, pcL, latency, cache, relayLog >>

S_Latency ==
    /\ pcS = "read" /\ ~closed[snap]
    /\ latency' = 42
    /\ S_Continue([Event("S", "latency") EXCEPT !.item = "latency"])
    /\ UNCHANGED << opts, clientProto, server, dialed, lock, swap, snap, pcC,
                    batchErr, pcL, cache, relayLog >>

S_Transfer ==
    /\ pcS = "read" /\ ~closed[snap]
    /\ pcS' = "swap"
    /\ swap' = [swap EXCEPT !["relay"] =
                    [kind |-> "transfer", phase |-> "wait", cand |-> -1]]
    /\ ev' = [Event("S", "transfer") EXCEPT !.item = "transfer"]
    /\ UNCHANGED << opts, clientProto, cancelled, cause, clientClosed, server,
                    closed, dialed, lock, snap, pcC, batchErr, pcL, latency,
                    cache, relayLog >>

S_UpdateCache ==
    /\ pcS = "read" /\ ~closed[snap]
    /\ cache' = "updated"
    /\ S_Continue([Event("S", "cache") EXCEPT !.item = "cache"])
    /\ UNCHANGED << opts, clientProto, server, dialed, lock, swap, snap, pcC,
                    batchErr, pcL, latency, relayLog >>

\* The log, when it is on, after an item was read and ws given to the client.
Relayed(kind, id, proto, c, ws) ==
    IF relayLog.on
    THEN [relayLog EXCEPT
              !.read = Append(@, [kind |-> kind, id |-> id, proto |-> proto,
                                  cancelled |-> c]),
              !.wrote = @ \o ws]
    ELSE relayLog

\* The log, when it is on, holds fewer than MaxLen items.
RoomInLog == relayLog.on => Len(relayLog.read) < MaxLen

\* Variant: the packets converted for the Tracker are what is written.
Written_Converted(pk) ==
    LET latest == ConvertToLatest(pk)
    IN  [i \in 1..Len(latest) |->
            Out("packet", latest[i].id, latest[i].proto)]

\* What is given to ClientConn.WritePacket for packet pk: pk itself.
Written(pk) == << Out("packet", pk.id, pk.proto) >>

\* A decoded packet.
S_Packet ==
    /\ pcS = "read" /\ ~closed[snap]
    /\ RoomInLog
    /\ \E pk \in ServerPackets, c \in BOOLEAN :
         LET ctx == Processed(NewPacketContext(<< >>, << pk >>), c)
             e == [Event("S", "packet") EXCEPT !.item = "packet",
                                               !.id = pk.id, !.cancelled = c]
             w == Written(pk)
         IN  IF Cancelled(ctx)
             THEN /\ S_Continue(e)
                  /\ relayLog' = Relayed("packet", pk.id, pk.proto, c, << >>)
             ELSE /\ relayLog' = Relayed("packet", pk.id, pk.proto, c, w)
                  /\ \E r \in ClientResults("write failed") :
                       LET f == [e EXCEPT !.tracked = Tracked(pk),
                                          !.wrote = w]
                       IN  IF r = NoErr THEN S_Continue(f)
                           ELSE S_Fatal(f, "failed to write packet to client",
                                        r)
    /\ UNCHANGED << opts, clientProto, server, dialed, lock, swap, snap, pcC,
                    batchErr, pcL, latency, cache >>

\* Opaque bytes.
S_Bytes ==
    /\ pcS = "read" /\ ~closed[snap]
    /\ RoomInLog
    /\ \E c \in BOOLEAN :
         LET ctx == Processed(NewPacketContext(<< "bytes" >>, << >>), c)
             e == [Event("S", "bytes") EXCEPT !.item = "bytes",
                                              !.cancelled = c]
             w == Out("bytes", "", "")
         IN  IF Cancelled(ctx)
             THEN /\ S_Continue(e)
                  /\ relayLog' = Relayed("bytes", "", "", c, << >>)
             ELSE /\ relayLog' = Relayed("bytes", "", "", c, << w >>)
                  /\ \E r \in ClientResults("write failed") :
                       LET f == [e EXCEPT !.wrote = << w >>]
                       IN  IF r = NoErr THEN S_Continue(f)
                           ELSE S_Fatal(f, "failed to write packet to client",
                                        r)
    /\ UNCHANGED << opts, clientProto, server, dialed, lock, swap, snap, pcC,
                    batchErr, pcL, latency, cache >>

\* The relay's Transfer or fallback call takes the serialization and dials.
S_SwapDial ==
    /\ pcS = "swap"
    /\ swap["relay"].phase = "wait"
    /\ SwapDial("relay", swap["relay"].kind)
    /\ ev' = [Event("S", "dialed") EXCEPT !.to = NextServer]
    /\ UNCHANGED << opts, clientProto, cancelled, cause, clientClosed, server,
                    closed, pcS, snap, pcC, batchErr, pcL, latency, cache,
                    relayLog >>

\* Variant: an error of Transfer closes the session and ends the relay, as
\* an error of fallback does.
S_TransferFailed_Fatal ==
    /\ pcS = "swap"
    /\ swap["relay"].phase = "wait"
    /\ swap["relay"].kind = "transfer"
    /\ SwapFail("relay")
    /\ \E e \in ConnErrors("transfer failed", cancelled) :
         CloseWithError(Wrap("failed to transfer", e))
    /\ ev' = [Event("S", "failed to transfer") EXCEPT
                  !.failed = TRUE, !.closes = << "failed to transfer" >>]
    /\ pcS' = "done"
    /\ UNCHANGED << opts, clientProto, server, snap, pcC, batchErr, pcL,
                    latency, cache, relayLog >>

\* Transfer returned an error: it is logged and the relay goes on.
S_TransferFailed ==
    /\ pcS = "swap"
    /\ swap["relay"].phase = "wait"
    /\ swap["relay"].kind = "transfer"
    /\ SwapFail("relay")
    /\ \E e \in ConnErrors("transfer failed", cancelled) :
         ev' = [Event("S", "failed to transfer") EXCEPT
                    !.failed = TRUE, !.logged = logError(cancelled, e)]
    /\ pcS' = "select"
    /\ UNCHANGED << opts, clientProto, cancelled, cause, clientClosed, server,
                    closed, snap, pcC, batchErr, pcL, latency, cache, relayLog
                    >>

\* fallback returned an error: the session is closed and the relay exits.
S_FallbackFailed ==
    /\ pcS = "swap"
    /\ swap["relay"].phase = "wait"
    /\ swap["relay"].kind = "fallback"
    /\ SwapFail("relay")
    /\ \E e \in ConnErrors("no fallback server", cancelled) :
         CloseWithError(Wrap("fallback failed", e))
    /\ ev' = [Event("S", "fallback failed") EXCEPT
                  !.failed = TRUE, !.closes = << "fallback failed" >>]
    /\ pcS' = "done"
    /\ UNCHANGED << opts, clientProto, server, snap, pcC, batchErr, pcL,
                    latency, cache, relayLog >>

\* The relay's Transfer or fallback call installs the server it dialed.
S_SwapInstall ==
    /\ pcS = "swap"
    /\ ev' = [Event("S", "installed") EXCEPT !.to = swap["relay"].cand]
    /\ SwapInstall("relay")
    /\ pcS' = "select"
    /\ UNCHANGED << opts, clientProto, cancelled, cause, clientClosed, dialed,
                    snap, pcC, batchErr, pcL, latency, cache, relayLog >>

(***************************************************************************)
(* Operations called from outside the relays.                              *)
(***************************************************************************)
\* Session.Transfer called by the embedder, on a session that is not closed:
\* dial under the serialization.
Api_TransferDial ==
    /\ swap["api"].phase = "idle"
    /\ ~cancelled
    /\ SwapDial("api", "transfer")
    /\ ev' = [Event("api", "dialed") EXCEPT !.to = NextServer]
    /\ UNCHANGED << opts, clientProto, cancelled, cause, clientClosed, server,
                    closed, pcS, snap, pcC, batchErr, pcL, latency, cache,
                    relayLog >>

Api_TransferInstall ==
    /\ ev' = [Event("api", "installed") EXCEPT !.to = swap["api"].cand]
    /\ SwapInstall("api")
    /\ UNCHANGED << opts, clientProto, cancelled, cause, clientClosed, dialed,
                    pcS, snap, pcC, batchErr, pcL, latency, cache, relayLog >>

\* Session.CloseWithError called by the embedder.
Api_Close ==
    /\ ~cancelled
    /\ CloseWithError(Err("closed by the embedder"))
    /\ ev' = Event("api", "close")
    /\ UNCHANGED << opts, clientProto, server, dialed, lock, swap, pcS, snap,
                    pcC, batchErr, pcL, latency, cache, relayLog >>

(***************************************************************************)
(* handleClient                                                            *)
(***************************************************************************)
\* The batches ReadBatchBytes can return to a client on protocol cp.
Batches(cp, n) == UNION {[1..k -> ClientPayloads(cp)] : k \in 0..n}
AllBatches == Batches(clientProto, MaxLen)

\* In the runs of the whole session a batch is one payload: a packet that
\* converts to one packet, or a payload whose header does not parse.
SessionBatches ==
    { << Pay(TRUE, IDOne, clientProto, 0, 0, FALSE) >>,
      << Pay(FALSE, UnknownID, clientProto, 0, 0, FALSE) >> }

\* The processor's choices for a batch of contexts.
OpsChoices(ctxBatch) ==
    {f \in [1..Len(ctxBatch) -> ProcOps] :
        \A i \in 1..Len(ctxBatch) : f[i] \in OpsFor(ctxBatch[i])}

\* What can happen while a batch is handled, as far as it is reached: the
\* processor's choices, a panic of the processor, WriteBatch's result.
BatchRuns(built) ==
    IF built.err # NoErr
    THEN {[ops |-> << >>, panics |-> FALSE, werr |-> NoErr]}
    ELSE {[ops |-> << >>, panics |-> TRUE, werr |-> NoErr]}
         \cup {[ops |-> f, panics |-> FALSE, werr |-> w] :
                  f \in OpsChoices(built.ctxBatch),
                  w \in ServerResults("write batch failed", server)}

C_Cancelled ==
    /\ pcC = "select"
    /\ cancelled
    /\ CloseWithError(Err(cause))
    /\ pcC' = "done"
    /\ ev' = [Event("C", "cancelled") EXCEPT !.closes = << cause >>]
    /\ UNCHANGED << opts, clientProto, server, dialed, lock, swap, pcS, snap,
                    batchErr, pcL, latency, cache, relayLog >>

C_Select ==
    /\ pcC = "select"
    /\ ~cancelled
    /\ pcC' = "read"
    /\ ev' = Event("C", "select")
    /\ UNCHANGED << opts, clientProto, cancelled, cause, clientClosed, server,
                    closed, dialed, lock, swap, pcS, snap, batchErr, pcL,
                    latency, cache, relayLog >>

\* ReadBatchBytes fails.
C_ReadError ==
    /\ pcC = "read"
    /\ \E e \in ConnErrors("read failed", clientClosed) :
         LET msg == "failed to read packet from client"
         IN  /\ CloseWithError(Wrap(msg, e))
             /\ ev' = [Event("C", msg) EXCEPT
                           !.failed = TRUE, !.closes = << msg >>,
                           !.logged = logError(cancelled', e)]
    /\ pcC' = "done"
    /\ UNCHANGED << opts, clientProto, server, dialed, lock, swap, pcS, snap,
                    batchErr, pcL, latency, cache, relayLog >>

\* ReadBatchBytes returns one of batches and handleClientBatch runs on it.
C_Batch(batches) ==
    /\ pcC = "read"
    /\ ~clientClosed
    /\ \E payloads \in batches :
         LET built == BuildContexts(payloads, NoContexts)
         IN  \E run \in BatchRuns(built) :
               LET res == handleClientBatch(payloads, run.ops, run.panics,
                                            run.werr)
               IN  /\ ev' = [Event("C", "batch") EXCEPT
                                 !.failed = res.err # NoErr,
                                 !.batch =
                                     [payloads |-> payloads, err |-> res.err,
                                      ctxs |-> res.ctxs, given |-> res.given,
                                      ops |-> run.ops,
                                      processed |-> res.processed,
                                      wrote |-> res.wrote, out |-> res.out,
                                      how |-> res.how, to |-> res.to,
                                      calls |-> res.calls]]
                   /\ batchErr' = res.err
                   /\ pcC' = IF res.err = NoErr THEN "select" ELSE "failed"
    /\ UNCHANGED << opts, clientProto, cancelled, cause, clientClosed, server,
                    closed, dialed, lock, swap, pcS, snap, pcL, latency, cache,
                    relayLog >>

\* What is closed when handleClientBatch has returned an error: the current
\* server (ServerConn.CloseWithError), not the session.
CloseOnBatchError(err) ==
    /\ closed' = ServerClosed(server)
    /\ UNCHANGED << cancelled, cause, clientClosed >>

\* handleClientBatch returned an error.
C_BatchError ==
    /\ pcC = "failed"
    /\ LET msg == "failed to write packet to server"
       IN  /\ CloseOnBatchError(Wrap(msg, batchErr))
           /\ ev' = [Event("C", msg) EXCEPT
                         !.failed = TRUE, !.to = server,
                         !.logged = logError(cancelled, batchErr)]
    /\ pcC' = "done"
    /\ batchErr' = NoErr
    /\ UNCHANGED << opts, clientProto, server, dialed, lock, swap, pcS, snap,
                    pcL, latency, cache, relayLog >>

(***************************************************************************)
(* handleLatency                                                           *)
(***************************************************************************)
\* Values of s.client.Latency(), in nanoseconds.
Durations == {999999, 1999999, 3000000}

\* time.Duration.Milliseconds
Milliseconds(d) == d \div 1000000

\* Variant: the latency is doubled before it is truncated to milliseconds.
LatencyField_DoubledFirst(d) == (d * 2) \div 1000000

\* The Latency field of the heartbeat packet.
LatencyField(d) == Milliseconds(d) * 2

\* The Latency packets one tick writes for client latency d.
TickPackets(d) == << [Latency |-> LatencyField(d)] >>

\* The server a tick writes to.
TickServer == server

L_Cancelled ==
    /\ pcL = "loop"
    /\ cancelled
    /\ CloseWithError(Err(cause))
    /\ pcL' = "done"
    /\ ev' = [Event("L", "cancelled") EXCEPT !.closes = << cause >>]
    /\ UNCHANGED << opts, clientProto, server, dialed, lock, swap, pcS, snap,
                    pcC, batchErr, latency, cache, relayLog >>

\* Variant: a failed heartbeat write closes the session and ends the task.
L_Tick_Fatal ==
    /\ pcL = "loop"
    /\ \E d \in Durations, r \in ServerResults("write failed", TickServer) :
         /\ ev' = [Event("L", "tick") EXCEPT
                       !.to = TickServer, !.dur = d, !.sent = TickPackets(d),
                       !.failed = r # NoErr,
                       !.closes = IF r = NoErr THEN << >> ELSE << r.msg >>]
         /\ IF r = NoErr
            THEN UNCHANGED << cancelled, cause, clientClosed, closed, pcL >>
            ELSE CloseWithError(r) /\ pcL' = "done"
    /\ UNCHANGED << opts, clientProto, server, dialed, lock, swap, pcS, snap,
                    pcC, batchErr, latency, cache, relayLog >>

\* The ticker fires: s.Server().WritePacket(&Latency{...}); an error is
\* logged and the loop goes on.
L_Tick ==
    /\ pcL = "loop"
    /\ \E d \in Durations, r \in ServerResults("write failed", TickServer) :
         ev' = [Event("L", "tick") EXCEPT
                    !.to = TickServer, !.dur = d, !.sent = TickPackets(d),
                    !.failed = r # NoErr,
                    !.logged = IF r = NoErr THEN FALSE
                               ELSE logError(cancelled, r)]
    /\ UNCHANGED << opts, clientProto, cancelled, cause, clientClosed, server,
                    closed, dialed, lock, swap, pcS, snap, pcC, batchErr, pcL,
                    latency, cache, relayLog >>

(***************************************************************************)
(* Specifications.                                                         *)
(***************************************************************************)
\* The state after construction, ClientDecode being one of decodeSets and
\* the log of the relay being on or off.
InitLog(decodeSets, on) ==
    /\ opts \in [SyncProtocol : BOOLEAN, ClientDecode : decodeSets]
    /\ clientProto \in Protocols
    /\ cancelled = FALSE
    /\ cause = ""
    /\ clientClosed = FALSE
    /\ server = 0
    /\ closed = [x \in Servers |-> FALSE]
    /\ dialed = [x \in Servers |-> IF x = 0 THEN "initial" ELSE ""]
    /\ lock = ""
    /\ swap = [c \in Callers |-> Idle]
    /\ pcS = "select"
    /\ snap = 0
    /\ pcC = "select"
    /\ batchErr = NoErr
    /\ pcL = "loop"
    /\ latency = 0
    /\ cache = ""
    /\ ev = NoEvent
    /\ relayLog = [on |-> on, read |-> << >>, wrote |-> << >>]

InitWith(decodeSets) == InitLog(decodeSets, FALSE)

ServerRelay ==
    \/ S_Cancelled \/ S_Snapshot \/ S_ReadError \/ S_Flush \/ S_Latency
    \/ S_Transfer \/ S_UpdateCache \/ S_Packet \/ S_Bytes \/ S_SwapDial
    \/ S_TransferFailed \/ S_FallbackFailed \/ S_SwapInstall

ClientRelay(batches) ==
    \/ C_Cancelled \/ C_Select \/ C_ReadError \/ C_Batch(batches)
    \/ C_BatchError

Heartbeat == L_Cancelled \/ L_Tick

Api == Api_TransferDial \/ Api_TransferInstall \/ Api_Close

\* The whole session: the three tasks and the embedder's calls, with no
\* packet id in ClientDecode.
Init == InitWith({{}})

Next == ServerRelay \/ ClientRelay(SessionBatches) \/ Heartbeat \/ Api

Spec == Init /\ [][Next]_vars

\* The client-to-server relay alone, on batches of up to MaxLen payloads,
\* with ClientDecode empty or holding one packet id.
InitBatch == InitWith({{}, {IDOne}})

NextBatch ==
    C_Select \/ C_ReadError \/ C_Batch(AllBatches) \/ C_BatchError

SpecBatch == InitBatch /\ [][NextBatch]_vars

\* The two data paths with the processor: the client-to-server relay on
\* batches of up to MaxLen payloads that decode, alternately of two packet
\* ids, and the server-to-client relay's packet and byte items.
DataBatches ==
    {[i \in 1..k |-> Pay(TRUE, IF i % 2 = 1 THEN IDOne ELSE IDMany,
                         clientProto, 0, 0, FALSE)] : k \in 0..MaxLen}

NextData ==
    \/ C_Select \/ C_Batch(DataBatches) \/ C_BatchError
    \/ S_Snapshot \/ S_Packet \/ S_Bytes

SpecData == InitBatch /\ [][NextData]_vars

\* The whole session under the scheduling the tasks rely on: a select whose
\* cancellation case is ready is eventually taken, an operation blocked on a
\* closed connection returns its error, and a Transfer or fallback call that
\* has started returns.
Fairness ==
    /\ WF_vars(S_Cancelled) /\ WF_vars(C_Cancelled) /\ WF_vars(L_Cancelled)
    /\ WF_vars(closed[snap] /\ S_ReadError)
    /\ WF_vars(clientClosed /\ C_ReadError)
    /\ WF_vars(C_BatchError)
    /\ WF_vars(S_SwapDial \/ S_TransferFailed \/ S_FallbackFailed)
    /\ WF_vars(S_SwapInstall)
    /\ WF_vars(Api_TransferInstall)

\* The options and the client's protocol decide what is forwarded, not
\* whether a task goes on: one setting of them.
InitLive ==
    /\ InitWith({{}})
    /\ ~opts.SyncProtocol
    /\ clientProto = LegacyProtocol

SpecLive == InitLive /\ [][Next]_vars /\ Fairness

\* The server-to-client relay alone, with the log of what it read and gave
\* to the client, up to MaxLen packet and byte items.
InitOrder == InitLog({{}}, TRUE)

NextOrder == S_Snapshot \/ S_Flush \/ S_Latency \/ S_Packet \/ S_Bytes

SpecOrder == InitOrder /\ [][NextOrder]_vars

(***************************************************************************)
(* Properties.                                                             *)
(***************************************************************************)
\* The step that led to this state ran handleClientBatch, and that call
\* reached WriteBatch.
BatchWritten == ev.task = "C" /\ ev.what = "batch" /\ ev.batch.wrote

\* The processor cancelled no context of the batch and marked none modified.
NoneCancelledOrModified ==
    \A i \in 1..Len(ev.batch.ctxs) :
        ~ev.batch.ctxs[i].canceled /\ ~ev.batch.ctxs[i].modified

\* The contexts of the batch the processor did not cancel, in order.
KeptCtxs == SelectSeq(ev.batch.ctxs, LAMBDA c : ~c.canceled)

\* The number of contexts among the first i that were not cancelled.
KeptUpTo(i) == Cardinality({j \in 1..i : ~ev.batch.ctxs[j].canceled})

\* The payloads that forward context c: its raw payload or its packet
\* re-encoded.
PayloadsOf(c) ==
    {c.raw[k] : k \in 1..Len(c.raw)}
        \cup {Encode(c.decoded[k], WriterProto) : k \in 1..Len(c.decoded)}

FatalMessages ==
    { "failed to read packet from client", "failed to write packet to client",
      "failed to flush client's buffer", "failed to write packet to server" }

\* C1: whenever handleClientBatch returns an error, the client-to-server
\* relay closes the current server and terminates the session: the
\* cancellation signal fires, with that error as cause if it had not fired.
C1_BatchErrorTerminatesSession ==
    [][ (pcC = "failed" /\ pcC' = "done")
            => /\ closed'[server]
               /\ cancelled'
               /\ (~cancelled
                     => cause' = "failed to write packet to server") ]_vars

C3_LegacyNeverRaw ==
    (BatchWritten /\ ~opts.SyncProtocol /\ clientProto # CurrentProtocol)
        => \A i \in 1..Len(ev.batch.out) :
               /\ ev.batch.how[i] = "encoded"
               /\ ev.batch.out[i].proto = CurrentProtocol

\* C4: when handleClientBatch has written the batch, every context acquired
\* for it has been given to ReturnPacketContext exactly once.
C4_EveryContextReturned ==
    BatchWritten
        => \A i \in 1..Len(ev.batch.ctxs) : ev.batch.ctxs[i].returns = 1

\* C5: a context the processor cancelled produces no write: a cancelled
\* packet or byte item from the server is neither written to the client nor
\* fed to the Tracker, and the batch given to WriteBatch holds one payload
\* for each context not cancelled, in their order, and nothing else.
C5_CancelledNeverWritten ==
    /\ (ev.task = "S" /\ ev.cancelled)
           => ev.wrote = << >> /\ ev.tracked = << >>
    /\ BatchWritten
           => /\ Len(ev.batch.out) = Len(KeptCtxs)
              /\ \A i \in 1..Len(KeptCtxs) :
                     ev.batch.out[i] \in PayloadsOf(KeptCtxs[i])

\* A batch of at least three payloads is written with a cancelled context
\* between two that are not cancelled.
C5_Witness ==
    /\ BatchWritten
    /\ \E i, j, k \in 1..Len(ev.batch.ctxs) :
          /\ i < j /\ j < k
          /\ ~ev.batch.ctxs[i].canceled
          /\ ev.batch.ctxs[j].canceled
          /\ ~ev.batch.ctxs[k].canceled
          /\ ev.batch.ctxs[i].raw # ev.batch.ctxs[j].raw
    /\ Len(ev.batch.out) = Len(ev.batch.payloads) - 1

\* C6: when ReadPacket fails on a snapshot that is no longer the current
\* server, the relay goes back to the top of its loop: the session is not
\* closed, no server is closed and no fallback is started.
C6_StaleReadSilence ==
    [][ (pcS = "read" /\ snap # server /\ ev'.task = "S" /\ ev'.item = "")
            => /\ pcS' = "select"
               /\ UNCHANGED << cancelled, cause, clientClosed, closed,
                               server, swap, lock, dialed >> ]_vars

\* The relay has just discarded a read error of a replaced server, the
\* session being open.
C6_Witness ==
    /\ ev.task = "S" /\ ev.what = "stale"
    /\ snap # server
    /\ ~cancelled /\ ~closed[server]
    /\ pcS = "select"

\* C7: swaps never overlap, and whenever no swap is in progress every server
\* that was dialed, except the one installed as current, is closed.
C7_SingleSwap ==
    /\ Cardinality({c \in Callers : swap[c].phase = "dialed"}) <= 1
    /\ \A c \in Callers : swap[c].phase = "dialed" => lock = c
    /\ lock = ""
          => /\ dialed[server] # ""
             /\ \A x \in Servers :
                    (dialed[x] # "" /\ x # server) => closed[x]

\* A Transfer called from outside the relay and a fallback of the relay have
\* both dialed a server and both are over.
C7_Witness ==
    /\ lock = ""
    /\ \A c \in Callers : swap[c] = Idle
    /\ \E x, y \in Servers :
          /\ dialed[x] = "api:transfer"
          /\ dialed[y] = "relay:fallback"
          /\ server \in {x, y}
          /\ ~closed[server]

\* C8: with SyncProtocol, a payload whose id is in the pool and not in
\* ClientDecode reaches the processor as a context with raw set and decoded
\* nil, and unless it is cancelled the payload itself is in the batch given
\* to WriteBatch, marked modified or not.
C8_NoDecodePassThrough ==
    (ev.task = "C" /\ ev.what = "batch" /\ ev.batch.processed
       /\ opts.SyncProtocol)
        => /\ Len(ev.batch.given) = Len(ev.batch.payloads)
           /\ \A i \in 1..Len(ev.batch.given) :
                 ev.batch.payloads[i].id \notin opts.ClientDecode
                    => /\ ev.batch.given[i].raw = << ev.batch.payloads[i] >>
                       /\ ev.batch.given[i].decoded = << >>
                       /\ (ev.batch.wrote /\ ~ev.batch.ctxs[i].canceled)
                             => /\ ev.batch.out[KeptUpTo(i)]
                                      = ev.batch.payloads[i]
                                /\ ev.batch.how[KeptUpTo(i)] = "raw"

\* With SyncProtocol and a legacy client, a payload that is not decoded is
\* marked modified by the processor and forwarded after a cancelled one.
C8_Witness ==
    /\ BatchWritten
    /\ opts.SyncProtocol /\ clientProto = LegacyProtocol
    /\ \E i, j \in 1..Len(ev.batch.ctxs) :
          /\ i < j
          /\ ev.batch.ctxs[i].canceled
          /\ ev.batch.payloads[j].id \notin opts.ClientDecode
          /\ ev.batch.ctxs[j].modified /\ ~ev.batch.ctxs[j].canceled

\* C9: a heartbeat tick of a session that is not cancelled writes exactly one
\* Latency packet, to the session's current server, whose Latency field is
\* twice the client latency in whole milliseconds.
C9_LatencyDoubling ==
    (ev.task = "L" /\ ev.what = "tick" /\ ~cancelled)
        => /\ Len(ev.sent) = 1
           /\ ev.to = server
           /\ LET ms == ev.sent[1].Latency \div 2
              IN  /\ ev.sent[1].Latency = 2 * ms
                  /\ ms * 1000000 <= ev.dur
                  /\ ev.dur < (ms + 1) * 1000000

\* A tick after a swap, the client latency not being a whole number of
\* milliseconds.
C9_Witness ==
    /\ ev.task = "L" /\ ev.what = "tick" /\ ~cancelled
    /\ server # 0
    /\ ev.dur = 1999999
    /\ ev.sent = << [Latency |-> 2] >>

\* C10: a fatal error of a relay that does not come from a cancellation that
\* had fired is installed as the cancel cause and logged through logError.
C10_FatalErrorsCauseAndLog ==
    [][ (~cancelled /\ ev'.failed /\ ev'.what \in FatalMessages)
            => cause' = ev'.what /\ ev'.logged ]_vars

\* The three tasks have left their loops.
AllExited == pcS = "done" /\ pcC = "done" /\ pcL = "done"

\* C11: once the cancellation signal has fired each of the three tasks
\* eventually exits, and a task that observes the cancellation at the top of
\* its loop calls CloseWithError with the cancel cause and exits.
C11_TasksExitAfterCancellation ==
    /\ cancelled ~> AllExited
    /\ [](ev.what = "cancelled"
            => /\ ev.closes = << cause >>
               /\ (ev.task = "S" => pcS = "done")
               /\ (ev.task = "C" => pcC = "done")
               /\ (ev.task = "L" => pcL = "done"))

\* Every task has exited, the heartbeat after seeing the cancellation at the
\* top of its loop, the relay of the server after a fallback that installed
\* a server while the session was closed.
C11_Witness ==
    /\ AllExited
    /\ ev.task = "L" /\ ev.what = "cancelled"
    /\ server # 0 /\ ~closed[server]
    /\ dialed[server] = "relay:fallback"

\* The step that led to this state ran handleClientBatch.
BatchHandled == ev.task = "C" /\ ev.what = "batch"

\* Every payload of the batch is turned into a context, or into none,
\* without error.
AllDecode ==
    \A i \in 1..Len(ev.batch.payloads) :
        decodeAndCreateContext(ev.batch.payloads[i]).err = NoErr

\* The calls made for the batch: one decodeAndCreateContext per payload in
\* payload order, then ProcessClient once on the contexts in that order, then
\* WriteBatch once on the current server.
CallsInOrder ==
    /\ ev.batch.calls =
           [i \in 1..Len(ev.batch.payloads) |-> "decodeAndCreateContext"]
               \o << "ProcessClient", "WriteBatch" >>
    /\ [i \in 1..Len(ev.batch.given) |-> ev.batch.given[i].raw[1]] =
           SelectSeq(ev.batch.payloads,
                     LAMBDA p : decodeAndCreateContext(p).ctx # << >>)
    /\ ev.batch.wrote /\ ev.batch.to = server

\* Neither ProcessClient nor WriteBatch is called and nothing is written.
NothingReachesServer ==
    /\ \A i \in 1..Len(ev.batch.calls) :
           ev.batch.calls[i] \notin {"ProcessClient", "WriteBatch"}
    /\ ~ev.batch.wrote /\ ev.batch.out = << >>

Reencoded(c) ==
    [hdr |-> TRUE, id |-> c.decoded[1].id,
     proto |-> IF opts.SyncProtocol THEN clientProto ELSE CurrentProtocol,
     val |-> c.decoded[1].val, extra |-> 0, bad |-> FALSE]

Converted(p) == ConvertToLatest(Pk(p.id, clientProto, p.val))

\* C14: without SyncProtocol and with a client on an older protocol, a
\* payload whose conversion yields no packet gets no context while the rest
\* of the batch is processed, a payload whose conversion yields packets gets
\* a context that carries the first of them, and at most one payload is
\* forwarded for each input payload.
C14_UpgradeKeepsFirst ==
    (BatchHandled /\ ev.batch.processed
       /\ ~opts.SyncProtocol /\ clientProto # CurrentProtocol)
        => /\ [i \in 1..Len(ev.batch.given) |-> ev.batch.given[i].raw[1]] =
                  SelectSeq(ev.batch.payloads,
                            LAMBDA p : Len(Converted(p)) > 0)
           /\ \A i \in 1..Len(ev.batch.given) :
                 ev.batch.given[i].decoded =
                     << Converted(ev.batch.given[i].raw[1])[1] >>
           /\ Len(ev.batch.out) <= Len(ev.batch.given)
           /\ \A i \in 1..Len(ev.batch.out) : ev.batch.out[i].id # IDExtra

\* A legacy client's batch is written that holds a payload converting to no
\* packet followed by one converting to several, marked modified, and by one
\* converting to one.
C14_Witness ==
    /\ BatchWritten
    /\ ~opts.SyncProtocol /\ clientProto = LegacyProtocol
    /\ Len(ev.batch.payloads) = 3
    /\ ev.batch.payloads[1].id = IDNone
    /\ ev.batch.payloads[2].id = IDMany
    /\ ev.batch.payloads[3].id = IDOne
    /\ Len(ev.batch.given) = 2
    /\ ev.batch.ctxs[1].modified
    /\ Len(ev.batch.out) = 2

\* The steps on which handleServer may leave its loop.
ExitsOfServerRelay ==
    { "cancelled", "fallback failed", "failed to flush client's buffer",
      "failed to write packet to client" }

\* C15: the server-to-client relay leaves its loop only on a step that
\* observed the cancellation, or on which fallback, Flush or a client write
\* failed; on that step Session.CloseWithError has been called; and a stale
\* read error, an installed server, a Transfer error or a context cancelled
\* by the processor does not make it leave.
C15_ServerRelayExits ==
    [][ /\ (pcS # "done" /\ pcS' = "done")
            => /\ ev'.task = "S"
               /\ ev'.what \in ExitsOfServerRelay
               /\ ev'.closes # << >>
               /\ cancelled'
        /\ (/\ ev'.task = "S"
            /\ \/ ev'.what \in {"stale", "installed", "failed to transfer"}
               \/ ev'.cancelled)
            => pcS' # "done" ]_vars

\* The relay has left its loop because fallback failed, on a session that
\* was open until then.
C15_Witness ==
    /\ pcS = "done"
    /\ ev.task = "S" /\ ev.what = "fallback failed"
    /\ cancelled /\ cause = "fallback failed"

\* C16: on a Flush item ClientConn.Flush is called if and only if the
\* processor did not cancel the context; a cancelled flush and a flush that
\* succeeds leave the session as it is and the relay in its loop; a Flush
\* failure closes the session with the wrapped error and stops the relay.
C16_FlushItem ==
    [][ (ev'.task = "S" /\ ev'.item = "flush")
            => /\ (ev'.wrote = << Out("flush", "", "") >>) <=> ~ev'.cancelled
               /\ (ev'.wrote = << >>) <=> ev'.cancelled
               /\ (ev'.cancelled \/ ~ev'.failed)
                     => /\ pcS' = "select"
                        /\ ev'.closes = << >>
                        /\ UNCHANGED << cancelled, cause, clientClosed,
                                        closed, server >>
               /\ ev'.failed
                     => /\ ~ev'.cancelled
                        /\ pcS' = "done"
                        /\ ev'.closes = << "failed to flush client's buffer" >>
                        /\ cancelled' /\ clientClosed'
                        /\ ~cancelled
                              => cause' = "failed to flush client's buffer"
      ]_vars

\* A Flush failure has closed a session that was open.
C16_Witness ==
    /\ ev.task = "S" /\ ev.item = "flush" /\ ev.failed
    /\ cause = "failed to flush client's buffer"
    /\ pcS = "done"

\* C17: when Session.Transfer returns an error for a Transfer item, the
\* relay closes neither the session nor a server, the current server is the
\* same, and the relay goes back to the top of its loop.
C17_TransferErrorNotFatal ==
    [][ (pcS = "swap" /\ swap["relay"].kind = "transfer"
           /\ ev'.task = "S" /\ ev'.failed)
            => /\ ev'.what = "failed to transfer"
               /\ ev'.closes = << >>
               /\ pcS' = "select"
               /\ UNCHANGED << cancelled, cause, clientClosed, closed,
                               server >> ]_vars

\* Transfer has returned an error on an open session whose server is open;
\* the error was logged and the relay is at the top of its loop.
C17_Witness ==
    /\ ev.task = "S" /\ ev.what = "failed to transfer" /\ ev.logged
    /\ ~cancelled /\ ~closed[server]
    /\ pcS = "select"

\* The items of the log that the processor did not cancel, in order.
ReadAndKept == SelectSeq(relayLog.read, LAMBDA it : ~it.cancelled)

\* C18: the items given to the client connection are the packet and byte
\* items read from the server that the processor did not cancel, in arrival
\* order and once each, a packet in the form and protocol it was read in
\* whatever its conversion for the Tracker yields.
C18_ServerItemsInOrder ==
    relayLog.on
        => /\ Len(relayLog.wrote) = Len(ReadAndKept)
           /\ \A i \in 1..Len(ReadAndKept) :
                 /\ relayLog.wrote[i].kind = ReadAndKept[i].kind
                 /\ relayLog.wrote[i].id = ReadAndKept[i].id
                 /\ relayLog.wrote[i].proto = ReadAndKept[i].proto
                 /\ ReadAndKept[i].kind = "packet"
                       => relayLog.wrote[i].proto = ServerProto

\* With SyncProtocol and a legacy client the relay has read MaxLen items,
\* among them a cancelled one, a packet that converts to several packets and
\* one that converts to none, and has written all but the cancelled one.
C18_Witness ==
    /\ relayLog.on
    /\ opts.SyncProtocol /\ clientProto = LegacyProtocol
    /\ Len(relayLog.read) = MaxLen
    /\ Len(relayLog.wrote) = MaxLen - 1
    /\ \E i, j \in 1..Len(relayLog.wrote) :
          /\ i < j
          /\ relayLog.wrote[i].id = IDMany
          /\ relayLog.wrote[j].id = IDNone
    /\ ev.task = "S" /\ ev.tracked = << >> /\ ev.wrote # << >>
    /\ ev.id = IDNone

\* A step on which the heartbeat write returned an error.
FailedTick == ev'.task = "L" /\ ev'.what = "tick" /\ ev'.failed

\* C19: a heartbeat write that fails closes neither the session nor a
\* server and leaves handleLatency in its loop, ready for the next tick; the
\* task leaves its loop only on a step that finds the session cancelled.
C19_FailedHeartbeatNotFatal ==
    [][ /\ FailedTick
           => /\ ev'.closes = << >>
              /\ pcL' = "loop"
              /\ UNCHANGED << cancelled, cause, clientClosed, closed, server >>
        /\ (pcL = "loop" /\ pcL' # "loop")
           => cancelled /\ ev'.what = "cancelled" ]_vars

\* A heartbeat write has just failed on a session that is not cancelled; the
\* error was logged and the task is in its loop.
C19_Witness ==
    /\ ev.task = "L" /\ ev.what = "tick" /\ ev.failed /\ ev.logged
    /\ ~cancelled
    /\ pcL = "loop"

\* C20: once the session is cancelled no step of the server-to-client relay
\* treats a read error as a failure of the current server (closing it and
\* starting a fallback), and none installs a new server.
C20_NoFallbackAfterCancellation ==
    [][ (cancelled /\ ev'.task = "S")
           => /\ ev'.what # "readerr"
              /\ server' = server ]_vars

==============================================================================
